---- MODULE Spec2Model ----
(***************************************************************************)
(* Model of social_post_generator.py: the key classifier, the three        *)
(* provider clients, the mock generator and the Streamlit script main().   *)
(*                                                                         *)
(* A text is a sequence of chunks (strings); the empty text is << >>.      *)
(* A credential and an event description are sequences of one-character    *)
(* chunks, so that prefixes, the Gemini pattern and len(desc) are computed *)
(* on characters.  Emoji of the source are written :name: .                *)
(***************************************************************************)
EXTENDS Integers, Sequences, FiniteSets, TLC

\* ------------------------------------------------------------- bounds
\* longest free-form body appended to a credential prefix
MaxBody == 2
\* length of the short event description
ShortDesc == 13
\* length of the long event description (beyond the Twitter threshold)
LongDesc == 101
\* user interactions (widget edits and button clicks) explored per session
MaxInteractions == 5

\* ------------------------------------------------- program constants
GeminiBodyLen == 35
TwitterDescLimit == 100
TwitterDescKeep == 80
HttpOk == 200

Platforms == <<"LinkedIn", "Twitter", "WhatsApp">>
PlatformSet == {Platforms[n] : n \in 1..Len(Platforms)}
Tones == {"Professional", "Casual", "Enthusiastic", "Sarcastic", "Formal", "Humorous"}
ServiceOptions ==
  {"Auto-detect", "OpenAI", "Google/Gemini", "Anthropic/Claude", "Use Mock Generator (No API)"}

\* ------------------------------------------------------ text helpers
Fill(c, n) == [k \in 1..n |-> c]

StartsWith(s, p) == Len(s) >= Len(p) /\ SubSeq(s, 1, Len(p)) = p

Whitespace == {" ", "\n", "\t", "\r"}

RECURSIVE LStrip(_)
LStrip(s) == IF s /= << >> /\ Head(s) \in Whitespace THEN LStrip(Tail(s)) ELSE s

RECURSIVE RStrip(_)
RStrip(s) ==
  IF s /= << >> /\ s[Len(s)] \in Whitespace THEN RStrip(SubSeq(s, 1, Len(s) - 1)) ELSE s

\* str.strip()
Strip(s) == RStrip(LStrip(s))

\* --------------------------------------------------- detect_api_service
SkPrefix == <<"s", "k", "-">>
SkAntPrefix == <<"s", "k", "-", "a", "n", "t", "-">>
AIzaPrefix == <<"A", "I", "z", "a">>

Digits == {"0", "1", "2", "3", "4", "5", "6", "7", "8", "9"}
Lower == {"a", "b", "c", "d", "e", "f", "g", "h", "i", "j", "k", "l", "m",
          "n", "o", "p", "q", "r", "s", "t", "u", "v", "w", "x", "y", "z"}
Upper == {"A", "B", "C", "D", "E", "F", "G", "H", "I", "J", "K", "L", "M",
          "N", "O", "P", "Q", "R", "S", "T", "U", "V", "W", "X", "Y", "Z"}
GeminiChars == Digits \cup Lower \cup Upper \cup {"_", "-"}

\* re.match(r'^AIza[0-9A-Za-z_-]{35}$', api_key): '$' also matches just
\* before one trailing newline.
MatchGemini(key) ==
  LET k == IF key /= << >> /\ key[Len(key)] = "\n"
           THEN SubSeq(key, 1, Len(key) - 1) ELSE key
  IN  /\ Len(k) = Len(AIzaPrefix) + GeminiBodyLen
      /\ StartsWith(k, AIzaPrefix)
      /\ \A n \in (Len(AIzaPrefix) + 1)..Len(k) : k[n] \in GeminiChars

ProbeOutcomes == {"ok200", "non200", "exception"}

\* variant: the probe is issued ahead of the rules
ProbeEverything(key) == TRUE

\* the probe of the models-listing endpoint is reached only past every return
ProbeIssued(key) ==
  /\ key /= << >>
  /\ ~StartsWith(key, SkPrefix)
  /\ ~MatchGemini(key)
  /\ ~StartsWith(key, SkAntPrefix)

detect_api_service(key, probe) ==
  IF key = << >> THEN "No API key provided"
  ELSE IF StartsWith(key, SkPrefix) THEN "OpenAI"
  ELSE IF MatchGemini(key) THEN "Google/Gemini"
  ELSE IF StartsWith(key, SkAntPrefix) THEN "Anthropic/Claude"
  ELSE IF probe = "ok200" THEN "OpenAI"
  ELSE "Unknown API service"

\* main(), the sidebar: detection is skipped for an empty credential
SidebarDetected(key, probe) ==
  IF key /= << >> THEN detect_api_service(key, probe) ELSE "Not Detected"

SidebarProbed(key) == key /= << >> /\ ProbeIssued(key)

\* ------------------------------------------------------ provider clients
\* One provider reply: kind "exception" is an exception raised by
\* requests.post (text = str(e)); kind "response" carries status and, for
\* status 200, the shape of the body: "ok" (text = the generated content),
\* "KeyError" / "IndexError" (an expected key or index is missing) or
\* "ValueError" (the body is not JSON); for other statuses text = response.text.
\* CommonResponses are the replies drawn in a full session, Responses the
\* replies a client is exercised on.
Exception(e) == [kind |-> "exception", status |-> 0, shape |-> "none", text |-> e]
Reply(st, sh, t) == [kind |-> "response", status |-> st, shape |-> sh, text |-> t]

GeneratedText == <<"Great event ahead!">>
Contents == {<<" ">> \o GeneratedText \o <<"\n">>, <<" ", "\n">>}
Bodies == {<<"invalid api key">>, << >>}
Responses ==
       {Reply(HttpOk, "ok", c) : c \in Contents}
  \cup {Reply(HttpOk, sh, << >>) : sh \in {"KeyError", "IndexError", "ValueError"}}
  \cup {Reply(401, "none", b) : b \in Bodies}
  \cup {Exception(<<"Connection refused">>)}
CommonResponses ==
  {r \in Responses : r.shape \in {"ok", "KeyError", "none"} /\ (r.status = HttpOk \/ r.text /= << >>)}

\* str(e) of the exception raised while reading a 200 body
ExcText(shape, firstKey) ==
  IF shape = "KeyError" THEN <<"'", firstKey, "'">>
  ELSE IF shape = "IndexError" THEN <<"list index out of range">>
  ELSE <<"Expecting value: line 1 column 1 (char 0)">>

\* generate_with_openai, the body of one loop iteration
OpenAIResult(resp) ==
  IF resp.kind = "exception" THEN <<"Error: ">> \o resp.text
  ELSE IF resp.status = HttpOk
       THEN IF resp.shape = "ok" THEN Strip(resp.text)
            ELSE <<"Error: ">> \o ExcText(resp.shape, "choices")
       ELSE <<"Error with OpenAI API: ">> \o resp.text

\* variant: the inner handler is missing, every exception is generic
GeminiNoInnerHandler(resp) ==
  IF resp.kind = "exception" THEN <<"Error: ">> \o resp.text
  ELSE IF resp.status = HttpOk
       THEN IF resp.shape = "ok" THEN Strip(resp.text)
            ELSE <<"Error: ">> \o ExcText(resp.shape, "candidates")
       ELSE <<"Error with Gemini API: ">>
              \o (IF resp.text /= << >> THEN resp.text ELSE <<"Unknown error">>)

\* generate_with_gemini, the body of one loop iteration (the st.error echo of a
\* non-200 reply shows the same message and stores nothing more)
GeminiResult(resp) ==
  IF resp.kind = "exception" THEN <<"Error: ">> \o resp.text
  ELSE IF resp.status = HttpOk
       THEN IF resp.shape = "ok" THEN Strip(resp.text)
            ELSE IF resp.shape \in {"KeyError", "IndexError"}
                 THEN <<"Error parsing Gemini API response: ">>
                        \o ExcText(resp.shape, "candidates")
                 ELSE <<"Error: ">> \o ExcText(resp.shape, "candidates")
       ELSE <<"Error with Gemini API: ">>
              \o (IF resp.text /= << >> THEN resp.text ELSE <<"Unknown error">>)

\* generate_with_anthropic, the body of one loop iteration
AnthropicResult(resp) ==
  IF resp.kind = "exception" THEN <<"Error: ">> \o resp.text
  ELSE IF resp.status = HttpOk
       THEN IF resp.shape = "ok" THEN Strip(resp.text)
            ELSE <<"Error: ">> \o ExcText(resp.shape, "content")
       ELSE <<"Error with Anthropic API: ">> \o resp.text

ProviderResult(generator, resp) ==
  IF generator = "generate_with_openai" THEN OpenAIResult(resp)
  ELSE IF generator = "generate_with_gemini" THEN GeminiResult(resp)
  ELSE AnthropicResult(resp)

\* results[platform] = ...
Put(f, k, v) == [q \in DOMAIN f \cup {k} |-> IF q = k THEN v ELSE f[q]]

\* --------------------------------------------------- generate_mock_posts
LinkedInBaseline(name, desc, date, location) ==
  <<"I'm excited to announce ">> \o name \o <<"!\n\n">>
    \o desc \o <<"\n\n">>
    \o (IF date /= << >> THEN <<":calendar: When: ">> \o date \o <<"\n">> ELSE << >>)
    \o (IF location /= << >>
        THEN <<":round_pushpin: Where: ">> \o location \o <<"\n">> ELSE << >>)
    \o <<"\nLooking forward to connecting with industry professionals at this event. #ProfessionalDevelopment #Networking">>

TwitterBaseline(name, desc, date, location) ==
  <<"Join us for ">> \o name \o <<"! ">>
    \o (IF Len(desc) > TwitterDescLimit
        THEN SubSeq(desc, 1, TwitterDescKeep) \o <<"...">> ELSE desc)
    \o (IF date /= << >> /\ location /= << >>
        THEN <<" ">> \o date \o <<" at ">> \o location ELSE << >>)
    \o <<" #excited #event">>

WhatsAppBaseline(name, desc, date, location) ==
  <<"Hey everyone! :wave:\n\nJust wanted to let you know about ">> \o name \o <<".\n\n">>
    \o desc \o <<"\n\n">>
    \o (IF date /= << >> THEN <<":calendar: Date: ">> \o date \o <<"\n">> ELSE << >>)
    \o (IF location /= << >>
        THEN <<":round_pushpin: Location: ">> \o location \o <<"\n">> ELSE << >>)
    \o <<"\nHope to see you there! Feel free to share with others who might be interested. :blush:">>

LinkedInSarcastic(name, desc, date, location) ==
  <<"Oh great, another event to add to your calendar: ">> \o name \o <<". :rolling_eyes:\n\n">>
    \o desc \o <<"\n\n">>
    \o (IF date /= << >> /\ location /= << >>
        THEN <<"If you really have nothing better to do on ">> \o date \o <<" at ">>
               \o location \o <<", I guess you could show up.\n\n">>
        ELSE << >>)
    \o <<"Can't wait to pretend to be interested in small talk. #NetworkingJoy #ProfessionalSmiling">>

TwitterSarcastic(name, desc, date, location) ==
  <<"Wow, ">> \o name
    \o <<"! Because what we all needed was ANOTHER event to attend. :rolling_eyes: ">>
    \o (IF date /= << >> /\ location /= << >>
        THEN date \o <<" at ">> \o location ELSE << >>)
    \o <<" #blessed #sarcasm">>

WhatsAppSarcastic(name, desc, date, location) ==
  <<"Attention everyone! :loudspeaker:\n\nApparently we're supposed to be excited about ">>
    \o name \o <<".\n\n">>
    \o desc \o <<"\n\n">>
    \o (IF date /= << >> /\ location /= << >>
        THEN <<"Mark your calendars (or don't) for ">> \o date \o <<" at ">>
               \o location \o <<".\n\n">>
        ELSE << >>)
    \o <<"Feel free to come up with creative excuses not to attend. :joy:">>

LinkedInEnthusiastic(name, desc, date, location) ==
  <<":tada: INCREDIBLY EXCITED to announce ">> \o name \o <<"!! :tada:\n\n">>
    \o desc \o <<"\n\n">>
    \o (IF date /= << >> /\ location /= << >>
        THEN <<":calendar: MARK YOUR CALENDARS: ">> \o date
               \o <<"\n:round_pushpin: BE THERE: ">> \o location \o <<"\n\n">>
        ELSE << >>)
    \o <<"This is going to be ABSOLUTELY AMAZING!! Can't WAIT to see everyone there!!! #Excited #BestEventEver">>

TwitterEnthusiastic(name, desc, date, location) ==
  <<"OMG! You DO NOT want to miss ">> \o name
    \o <<"!! It's going to be INCREDIBLE! ">>
    \o (IF date /= << >> /\ location /= << >>
        THEN date \o <<" at ">> \o location ELSE << >>)
    \o <<" #CantWait #SoExcited">>

WhatsAppEnthusiastic(name, desc, date, location) ==
  <<"HEY EVERYONE!!! :fire::fire::fire:\n\nDROP EVERYTHING YOU'RE DOING! ">> \o name
    \o <<" is happening and it's going to be EPIC!!!\n\n">>
    \o desc \o <<"\n\n">>
    \o (IF date /= << >> /\ location /= << >>
        THEN <<":calendar: When: ">> \o date
               \o <<" (SET THOSE ALARMS!)\n:round_pushpin: Where: ">> \o location
               \o <<" (GET THERE EARLY!)\n\n">>
        ELSE << >>)
    \o <<"I AM SOOOO EXCITED!!! :tada::tada::tada: PLEASE COME!!! SHARE WITH EVERYONE!!!">>

MockBaseline(name, desc, date, location) ==
  [pl \in PlatformSet |->
     IF pl = "LinkedIn" THEN LinkedInBaseline(name, desc, date, location)
     ELSE IF pl = "Twitter" THEN TwitterBaseline(name, desc, date, location)
     ELSE WhatsAppBaseline(name, desc, date, location)]

\* variant: the tone templates are appended to the baseline posts (+= for =)
MockOverlay(name, desc, date, location, tn) ==
  LET base == MockBaseline(name, desc, date, location)
  IN  IF tn = "Sarcastic"
      THEN [pl \in PlatformSet |->
              base[pl] \o (IF pl = "LinkedIn" THEN LinkedInSarcastic(name, desc, date, location)
                           ELSE IF pl = "Twitter" THEN TwitterSarcastic(name, desc, date, location)
                           ELSE WhatsAppSarcastic(name, desc, date, location))]
      ELSE IF tn = "Enthusiastic"
      THEN [pl \in PlatformSet |->
              base[pl] \o (IF pl = "LinkedIn" THEN LinkedInEnthusiastic(name, desc, date, location)
                           ELSE IF pl = "Twitter" THEN TwitterEnthusiastic(name, desc, date, location)
                           ELSE WhatsAppEnthusiastic(name, desc, date, location))]
      ELSE base

generate_mock_posts(name, desc, date, location, tn) ==
  IF tn = "Sarcastic"
  THEN [pl \in PlatformSet |->
          IF pl = "LinkedIn" THEN LinkedInSarcastic(name, desc, date, location)
          ELSE IF pl = "Twitter" THEN TwitterSarcastic(name, desc, date, location)
          ELSE WhatsAppSarcastic(name, desc, date, location)]
  ELSE IF tn = "Enthusiastic"
  THEN [pl \in PlatformSet |->
          IF pl = "LinkedIn" THEN LinkedInEnthusiastic(name, desc, date, location)
          ELSE IF pl = "Twitter" THEN TwitterEnthusiastic(name, desc, date, location)
          ELSE WhatsAppEnthusiastic(name, desc, date, location)]
  ELSE MockBaseline(name, desc, date, location)

\* ------------------------------------------------------------ inputs
Prefixes == {<< >>, SkPrefix, SkAntPrefix, AIzaPrefix, <<"s", "k">>, <<"p", "k", "-">>}
BodyChars == {"a", "-", "!"}
RECURSIVE BodiesUpTo(_)
BodiesUpTo(n) ==
  IF n = 0 THEN {<< >>}
  ELSE LET shorter == BodiesUpTo(n - 1)
       IN  shorter \cup {Append(b, c) : b \in shorter, c \in BodyChars}
KeyBodies ==
  BodiesUpTo(MaxBody)
    \cup {Fill("a", GeminiBodyLen), Fill("a", GeminiBodyLen - 1), Fill("a", GeminiBodyLen + 1),
          Fill("a", GeminiBodyLen - 1) \o <<"!">>, Fill("a", GeminiBodyLen) \o <<"\n">>}
\* credentials the classifier is exercised on
Keys == {p \o b : p \in Prefixes, b \in KeyBodies}
\* credentials typed in a full session: one per class
UIKeys == {<< >>, SkPrefix \o <<"a">>, SkAntPrefix \o <<"a">>,
           AIzaPrefix \o Fill("a", GeminiBodyLen), <<"p", "k", "-", "a">>}

Names == {<< >>, <<"Tech Conf">>}
Descs == {Fill("d", n) : n \in {0, ShortDesc, TwitterDescLimit, LongDesc}}
\* descriptions typed in a full session
UIDescs == {Fill("d", n) : n \in {0, ShortDesc}}
Dates == {<< >>, <<"March 25-27, 2025">>}
Locations == {<< >>, <<"San Francisco Convention Center">>}

\* ------------------------------------------------------------- state
VARIABLES
  api_key, selected_service, event_name, event_date, event_location, tone,
  event_desc,        \* the widgets' values
  generate_button,   \* value of the Generate button in the current script run
  detected,          \* service after the sidebar's detection
  probed,            \* the models-listing probe was issued in this script run
  service,           \* service after the manual override
  posts,             \* st.session_state.posts
  pc,                \* "idle": script run finished; "request": about to post the
                     \* request of platform_idx; "response": waiting for its reply
  platform_idx,      \* position of the provider loop in Platforms
  results,           \* the running client's local results dict
  requests,          \* platforms requested in this script run, in order
  responses,         \* replies received in this script run, in order
  invoked,           \* generators called in this script run, in order
  error_shown,       \* st.error("Event name and description are required!")
  toast,             \* "none", "generated" or "copied"
  gemini_notice,     \* the Gemini advisory st.info
  view,              \* the results tabs: [shown, tabs]
  interactions       \* user interactions so far

widgets == <<api_key, selected_service, event_name, event_date, event_location, tone,
             event_desc>>
vars == <<api_key, selected_service, event_name, event_date, event_location, tone,
          event_desc, generate_button, detected, probed, service, posts, pc,
          platform_idx, results, requests, responses, invoked, error_shown, toast,
          gemini_notice, view, interactions>>

EmptyPosts == [pl \in PlatformSet |-> << >>]
NoResults == [pl \in {} |-> << >>]

\* --------------------------------------------------------------- main
\* variant: the override is consulted only when nothing was detected
OverrideOnlyWhenUndetected(det, sel) ==
  IF det = "Not Detected" /\ sel /= "Auto-detect"
  THEN IF sel = "Use Mock Generator (No API)" THEN "Mock" ELSE sel
  ELSE det

\* the manual override
EffectiveService(det, sel) ==
  IF sel /= "Auto-detect"
  THEN IF sel = "Use Mock Generator (No API)" THEN "Mock" ELSE sel
  ELSE det

\* the dispatch chain under the Generate button
Dispatch(svc) ==
  IF svc = "OpenAI" THEN "generate_with_openai"
  ELSE IF svc = "Google/Gemini" THEN "generate_with_gemini"
  ELSE IF svc = "Anthropic/Claude" THEN "generate_with_anthropic"
  ELSE "generate_mock_posts"

\* variant: only the name is required
OnlyNameRequired(name, desc) == name /= << >>

\* not (not event_name or not event_desc)
RequiredFieldsPresent(name, desc) == name /= << >> /\ desc /= << >>

\* variant: the tabs are rendered unconditionally
RenderAlways(p) ==
  [shown |-> TRUE,
   tabs |-> [pl \in PlatformSet |-> IF pl \in DOMAIN p THEN p[pl] ELSE << >>]]

\* the results tabs, shown when any stored post is non-empty
RenderResults(p) ==
  IF \E k \in DOMAIN p : p[k] /= << >>
  THEN [shown |-> TRUE,
        tabs |-> [pl \in PlatformSet |-> IF pl \in DOMAIN p THEN p[pl] ELSE << >>]]
  ELSE [shown |-> FALSE, tabs |-> EmptyPosts]

\* variant: a failed platform is requested again
RetryOnFailure(idx, v) ==
  IF v /= << >> /\ v[1] \in {"Error: ", "Error with OpenAI API: ", "Error with Gemini API: ",
                            "Error with Anthropic API: ", "Error parsing Gemini API response: "}
  THEN idx ELSE idx + 1

\* the for loop moves to the next platform whatever was stored
NextPlatformIdx(idx, v) == idx + 1

\* variant: the first failure ends the loop
StopAtFailure(idx, v) ==
  \/ idx > Len(Platforms)
  \/ (v /= << >> /\ v[1] = "Error: ")

\* the for loop ends past the last platform
LoopFinished(idx, v) == idx > Len(Platforms)

\* variant: an error overwrites the entries stored so far
StoreErrorEverywhere(res, pl, v) ==
  IF v /= << >> /\ v[1] = "Error with OpenAI API: "
  THEN [q \in DOMAIN res \cup {pl} |-> v]
  ELSE Put(res, pl, v)

\* results[platform] = content / error string
StoreResult(res, pl, v) == Put(res, pl, v)

\* One run of the script main() on the given widget values, up to its end or
\* up to the first provider request.  gb: the Generate button was clicked;
\* copied: a Copy button was clicked; probe: outcome of the models-listing
\* probe, read only when the probe is issued.
ScriptRun(key, sel, name, date, location, tn, desc, gb, copied, probe) ==
  LET det == SidebarDetected(key, probe)
      svc == EffectiveService(det, sel)
      generator == Dispatch(svc)
  IN  /\ api_key' = key
      /\ selected_service' = sel
      /\ event_name' = name
      /\ event_date' = date
      /\ event_location' = location
      /\ tone' = tn
      /\ event_desc' = desc
      /\ generate_button' = gb
      /\ detected' = det
      /\ probed' = SidebarProbed(key)
      /\ service' = svc
      /\ interactions' = interactions + 1
      /\ requests' = << >>
      /\ responses' = << >>
      /\ results' = NoResults
      /\ platform_idx' = 1
      /\ IF gb /\ ~RequiredFieldsPresent(name, desc)
         THEN /\ error_shown' = TRUE
              /\ invoked' = << >>
              /\ gemini_notice' = FALSE
              /\ toast' = "none"
              /\ posts' = posts
              /\ view' = RenderResults(posts)
              /\ pc' = "idle"
         ELSE IF gb /\ generator = "generate_mock_posts"
         THEN /\ error_shown' = FALSE
              /\ invoked' = <<generator>>
              /\ gemini_notice' = FALSE
              /\ toast' = "generated"
              /\ posts' = generate_mock_posts(name, desc, date, location, tn)
              /\ view' = RenderResults(posts')
              /\ pc' = "idle"
         ELSE IF gb
         THEN /\ error_shown' = FALSE
              /\ invoked' = <<generator>>
              /\ gemini_notice' = (svc = "Google/Gemini")
              /\ toast' = "none"
              /\ posts' = posts
              /\ view' = view
              /\ pc' = "request"
         ELSE /\ error_shown' = FALSE
              /\ invoked' = << >>
              /\ gemini_notice' = FALSE
              /\ toast' = IF copied THEN "copied" ELSE "none"
              /\ posts' = posts
              /\ view' = RenderResults(posts)
              /\ pc' = "idle"

CanInteract == pc = "idle" /\ interactions < MaxInteractions

\* the user edits one widget, which reruns the script
EditApiKey(keys) ==
  /\ CanInteract
  /\ \E k \in keys \ {api_key}, probe \in ProbeOutcomes :
       ScriptRun(k, selected_service, event_name, event_date, event_location, tone,
                 event_desc, FALSE, FALSE, probe)

SetApiKey == EditApiKey(UIKeys)

ClassifyApiKey == EditApiKey(Keys)

SelectService ==
  /\ CanInteract
  /\ \E sel \in ServiceOptions \ {selected_service}, probe \in ProbeOutcomes :
       ScriptRun(api_key, sel, event_name, event_date, event_location, tone,
                 event_desc, FALSE, FALSE, probe)

SetEventName ==
  /\ CanInteract
  /\ \E name \in Names \ {event_name}, probe \in ProbeOutcomes :
       ScriptRun(api_key, selected_service, name, event_date, event_location, tone,
                 event_desc, FALSE, FALSE, probe)

SetEventDate ==
  /\ CanInteract
  /\ \E date \in Dates \ {event_date}, probe \in ProbeOutcomes :
       ScriptRun(api_key, selected_service, event_name, date, event_location, tone,
                 event_desc, FALSE, FALSE, probe)

SetEventLocation ==
  /\ CanInteract
  /\ \E location \in Locations \ {event_location}, probe \in ProbeOutcomes :
       ScriptRun(api_key, selected_service, event_name, event_date, location, tone,
                 event_desc, FALSE, FALSE, probe)

SetTone ==
  /\ CanInteract
  /\ \E tn \in Tones \ {tone}, probe \in ProbeOutcomes :
       ScriptRun(api_key, selected_service, event_name, event_date, event_location, tn,
                 event_desc, FALSE, FALSE, probe)

SetEventDesc ==
  /\ CanInteract
  /\ \E desc \in UIDescs \ {event_desc}, probe \in ProbeOutcomes :
       ScriptRun(api_key, selected_service, event_name, event_date, event_location, tone,
                 desc, FALSE, FALSE, probe)

\* a Copy button, rendered under a non-empty post of the results tabs
ClickCopy ==
  /\ CanInteract
  /\ view.shown
  /\ \E pl \in PlatformSet, probe \in ProbeOutcomes :
       /\ view.tabs[pl] /= << >>
       /\ ScriptRun(api_key, selected_service, event_name, event_date, event_location,
                    tone, event_desc, FALSE, TRUE, probe)

\* the Generate Posts button
ClickGenerate ==
  /\ CanInteract
  /\ \E probe \in ProbeOutcomes :
       ScriptRun(api_key, selected_service, event_name, event_date, event_location,
                 tone, event_desc, TRUE, FALSE, probe)

\* requests.post of the current platform's prompt
SendRequest ==
  /\ pc = "request"
  /\ requests' = Append(requests, Platforms[platform_idx])
  /\ pc' = "response"
  /\ UNCHANGED <<widgets, generate_button, detected, probed, service, posts, platform_idx,
                 results, responses, invoked, error_shown, toast, gemini_notice, view,
                 interactions>>

\* the reply (or the exception) of the pending request: the rest of the loop
\* body, and past the last platform the return to main(), which stores the
\* result, toasts and renders the tabs
Receive(replies) ==
  /\ pc = "response"
  /\ \E resp \in replies :
       LET v == ProviderResult(invoked[1], resp)
           res == StoreResult(results, Platforms[platform_idx], v)
           idx == NextPlatformIdx(platform_idx, v)
       IN  /\ responses' = Append(responses, resp)
           /\ results' = res
           /\ platform_idx' = idx
           /\ IF LoopFinished(idx, v)
              THEN /\ posts' = res
                   /\ toast' = "generated"
                   /\ view' = RenderResults(res)
                   /\ pc' = "idle"
              ELSE /\ pc' = "request"
                   /\ UNCHANGED <<posts, toast, view>>
  /\ UNCHANGED <<widgets, generate_button, detected, probed, service, requests, invoked,
                 error_shown, gemini_notice, interactions>>

ReceiveResponse == Receive(CommonResponses)

ReceiveAnyResponse == Receive(Responses)

\* a fresh session after the first script run
Init ==
  /\ api_key = << >>
  /\ selected_service = "Auto-detect"
  /\ event_name = << >>
  /\ event_date = << >>
  /\ event_location = << >>
  /\ tone = "Professional"
  /\ event_desc = << >>
  /\ generate_button = FALSE
  /\ detected = "Not Detected"
  /\ probed = FALSE
  /\ service = "Not Detected"
  /\ posts = EmptyPosts
  /\ pc = "idle"
  /\ platform_idx = 1
  /\ results = NoResults
  /\ requests = << >>
  /\ responses = << >>
  /\ invoked = << >>
  /\ error_shown = FALSE
  /\ toast = "none"
  /\ gemini_notice = FALSE
  /\ view = RenderResults(EmptyPosts)
  /\ interactions = 0

Next ==
  \/ SetApiKey
  \/ SelectService
  \/ SetEventName
  \/ SetEventDate
  \/ SetEventLocation
  \/ SetTone
  \/ SetEventDesc
  \/ ClickCopy
  \/ ClickGenerate
  \/ SendRequest
  \/ ReceiveResponse

Spec == Init /\ [][Next]_vars

\* the sidebar alone: the credential box is edited in a fresh session
NextDetect == ClassifyApiKey

SpecDetect == Init /\ [][NextDetect]_vars

\* the mock generator alone: a session whose form is filled in, with the mock
\* generator selected, in which Generate is clicked
InitMock ==
  /\ api_key = << >>
  /\ selected_service = "Use Mock Generator (No API)"
  /\ event_name \in Names \ {<< >>}
  /\ event_date \in Dates
  /\ event_location \in Locations
  /\ tone \in Tones
  /\ event_desc \in Descs \ {<< >>}
  /\ generate_button = FALSE
  /\ detected = "Not Detected"
  /\ probed = FALSE
  /\ service = "Mock"
  /\ posts = EmptyPosts
  /\ pc = "idle"
  /\ platform_idx = 1
  /\ results = NoResults
  /\ requests = << >>
  /\ responses = << >>
  /\ invoked = << >>
  /\ error_shown = FALSE
  /\ toast = "none"
  /\ gemini_notice = FALSE
  /\ view = RenderResults(EmptyPosts)
  /\ interactions = 0

NextMock == ClickGenerate

SpecMock == InitMock /\ [][NextMock]_vars

\* one provider client alone: the session right after Generate was clicked on
\* a valid form with a provider selected by hand (name, description, service,
\* click), at the head of the client's loop
InitClient ==
  /\ api_key = << >>
  /\ selected_service \in {"OpenAI", "Google/Gemini", "Anthropic/Claude"}
  /\ event_name \in Names \ {<< >>}
  /\ event_date = << >>
  /\ event_location = << >>
  /\ tone = "Professional"
  /\ event_desc \in UIDescs \ {<< >>}
  /\ generate_button = TRUE
  /\ detected = "Not Detected"
  /\ probed = FALSE
  /\ service = selected_service
  /\ posts = EmptyPosts
  /\ pc = "request"
  /\ platform_idx = 1
  /\ results = NoResults
  /\ requests = << >>
  /\ responses = << >>
  /\ invoked = <<Dispatch(service)>>
  /\ error_shown = FALSE
  /\ toast = "none"
  /\ gemini_notice = (service = "Google/Gemini")
  /\ view = RenderResults(EmptyPosts)
  /\ interactions = 4

NextClient ==
  \/ SendRequest
  \/ ReceiveAnyResponse

SpecClient == InitClient /\ [][NextClient]_vars

\* ================================================================ claims
Succeeded(r) == r.kind = "response" /\ r.status = HttpOk /\ r.shape = "ok"
Malformed(r) ==
  r.kind = "response" /\ r.status = HttpOk /\ r.shape \in {"KeyError", "IndexError"}
GenericPrefix == "Error: "
ParsingPrefix == "Error parsing Gemini API response: "
ErrorPrefixes ==
  {GenericPrefix, ParsingPrefix, "Error with OpenAI API: ", "Error with Gemini API: ",
   "Error with Anthropic API: "}
IsErrorString(t) == t /= << >> /\ t[1] \in ErrorPrefixes
RunCompleted == pc = "idle" /\ toast = "generated"
ProviderRunCompleted == RunCompleted /\ invoked /= <<"generate_mock_posts">>

\* C1: every credential that starts with sk-ant- is classified as
\* Anthropic/Claude, never as OpenAI.
C1_SkAntIsAnthropic ==
  StartsWith(api_key, SkAntPrefix) => detected = "Anthropic/Claude"

\* C2: the stored result has exactly the keys LinkedIn, Twitter and WhatsApp,
\* initially and after every run of every generator, whatever the replies.
C2_ExactlyThreeKeys == DOMAIN posts = PlatformSet

C2_Witness ==
  /\ ProviderRunCompleted
  /\ Len(responses) = 3
  /\ responses[1].kind = "exception"
  /\ responses[2].kind = "response" /\ responses[2].status /= HttpOk
  /\ Malformed(responses[3])
  /\ DOMAIN posts = PlatformSet

\* C3: in a provider run each platform's entry is decided by its own reply
\* alone (the stripped text of a 200 reply, an error string of a failed one),
\* entries stored earlier are never changed by a later reply, and the run
\* ends only after the third reply, storing these entries.
C3_PlatformsIndependent ==
  /\ \A n \in 1..Len(responses) :
       /\ Platforms[n] \in DOMAIN results
       /\ Succeeded(responses[n]) => results[Platforms[n]] = Strip(responses[n].text)
       /\ ~Succeeded(responses[n]) => IsErrorString(results[Platforms[n]])
  /\ pc = "idle" => Len(responses) = Len(Platforms) /\ posts = results

C3_Witness ==
  /\ ProviderRunCompleted
  /\ invoked = <<"generate_with_openai">>
  /\ Len(responses) = 3
  /\ responses[1].kind = "response" /\ responses[1].status = 401
  /\ Succeeded(responses[2]) /\ Succeeded(responses[3])
  /\ posts["LinkedIn"][1] = "Error with OpenAI API: "
  /\ posts["Twitter"] = GeneratedText
  /\ posts["WhatsApp"] = GeneratedText

\* C4: a Generate click with an empty name or description shows the
\* required-fields error, calls no generator and leaves the stored result as
\* it was, whatever service is selected.
C4_BlockedRunChangesNothing ==
  [][(/\ interactions' /= interactions
      /\ generate_button'
      /\ (event_name' = << >> \/ event_desc' = << >>))
     => (/\ error_shown'
         /\ invoked' = << >>
         /\ requests' = << >>
         /\ toast' = "none"
         /\ pc' = "idle"
         /\ posts' = posts)]_vars

C4_Witness ==
  /\ generate_button
  /\ error_shown
  /\ event_name /= << >>
  /\ event_desc = << >>
  /\ invoked = << >>
  /\ posts /= EmptyPosts

\* C5: the service of a run is the manual override unless that is
\* Auto-detect, in which case it is the detected service; OpenAI, Google/Gemini
\* and Anthropic/Claude go to their clients and every other service to the
\* mock generator; a run calls exactly one generator.
C5_OverrideAndDispatch ==
  /\ selected_service = "Auto-detect" => service = detected
  /\ selected_service = "Use Mock Generator (No API)" => service = "Mock"
  /\ selected_service \in {"OpenAI", "Google/Gemini", "Anthropic/Claude"}
       => service = selected_service
  /\ IF generate_button /\ ~error_shown
     THEN /\ Len(invoked) = 1
          /\ service = "OpenAI" <=> invoked[1] = "generate_with_openai"
          /\ service = "Google/Gemini" <=> invoked[1] = "generate_with_gemini"
          /\ service = "Anthropic/Claude" <=> invoked[1] = "generate_with_anthropic"
          /\ service \in {"Unknown API service", "Not Detected", "Mock"}
               <=> invoked[1] = "generate_mock_posts"
     ELSE invoked = << >>

C5_Witness ==
  /\ StartsWith(api_key, SkPrefix)
  /\ detected = "OpenAI"
  /\ selected_service = "Anthropic/Claude"
  /\ generate_button
  /\ invoked = <<"generate_with_anthropic">>

\* C6 as stated: in each of the three clients a 200 reply that lacks the
\* expected keys or index is stored as a parsing-error string, distinct from
\* the generic error string of a transport exception.
C6_ParsingErrorInEveryClient ==
  \A n \in 1..Len(responses) :
    Malformed(responses[n])
      => /\ IsErrorString(results[Platforms[n]])
         /\ results[Platforms[n]][1] /= GenericPrefix

\* C6 amended: only the Gemini client stores a parsing-error string for such
\* a reply; the OpenAI and Anthropic clients store the generic error string
\* with the exception text; in all three the loop goes on to the next platform.
C6_ParsingErrorInGeminiOnly ==
  /\ \A n \in 1..Len(responses) :
       Malformed(responses[n])
         => results[Platforms[n]][1]
              = (IF invoked = <<"generate_with_gemini">> THEN ParsingPrefix
                 ELSE GenericPrefix)
  /\ Len(responses) < Len(Platforms) => pc \in {"request", "response"}
  /\ pc = "request" => platform_idx = Len(responses) + 1

C6_Witness ==
  /\ invoked = <<"generate_with_gemini">>
  /\ Len(requests) = 2
  /\ Malformed(responses[1])
  /\ results["LinkedIn"][1] = ParsingPrefix

\* C7: an empty credential is classified Not Detected with no network call,
\* and the models-listing probe is issued only for a non-empty credential
\* that matches none of the prefix and pattern rules.
C7_ProbeOnlyWhenNoRuleMatches ==
  /\ api_key = << >> => detected = "Not Detected" /\ ~probed
  /\ probed => /\ api_key /= << >>
               /\ ~StartsWith(api_key, SkPrefix)
               /\ ~StartsWith(api_key, SkAntPrefix)
               /\ ~MatchGemini(api_key)

C7_Witness ==
  /\ interactions >= 2
  /\ api_key = << >>
  /\ detected = "Not Detected"
  /\ ~probed

\* The wording of the baseline templates: their literal chunks, apart from
\* punctuation, line breaks and the "at" joining date and location, which
\* every template uses around the event's own data.
BaselinePhrases(pl) ==
  IF pl = "LinkedIn"
  THEN {"I'm excited to announce ", ":calendar: When: ", ":round_pushpin: Where: ",
        "\nLooking forward to connecting with industry professionals at this event. #ProfessionalDevelopment #Networking"}
  ELSE IF pl = "Twitter"
  THEN {"Join us for ", " #excited #event"}
  ELSE {"Hey everyone! :wave:\n\nJust wanted to let you know about ", ":calendar: Date: ",
        ":round_pushpin: Location: ",
        "\nHope to see you there! Feel free to share with others who might be interested. :blush:"}

ToneOpening(tn, pl) ==
  IF tn = "Sarcastic"
  THEN (IF pl = "LinkedIn" THEN "Oh great, another event to add to your calendar: "
        ELSE IF pl = "Twitter" THEN "Wow, "
        ELSE "Attention everyone! :loudspeaker:\n\nApparently we're supposed to be excited about ")
  ELSE (IF pl = "LinkedIn" THEN ":tada: INCREDIBLY EXCITED to announce "
        ELSE IF pl = "Twitter" THEN "OMG! You DO NOT want to miss "
        ELSE "HEY EVERYONE!!! :fire::fire::fire:\n\nDROP EVERYTHING YOU'RE DOING! ")

\* C8: with tone Sarcastic or Enthusiastic each of the three mock posts is
\* the tone's own template and holds no phrase of its baseline template,
\* whether or not date and location are given; with any other tone the three
\* posts are the baseline templates.
C8_ToneTemplatesReplaceBaseline ==
  RunCompleted =>
    IF tone \in {"Sarcastic", "Enthusiastic"}
    THEN \A pl \in PlatformSet :
           /\ posts[pl][1] = ToneOpening(tone, pl)
           /\ \A n \in 1..Len(posts[pl]) : posts[pl][n] \notin BaselinePhrases(pl)
    ELSE \A pl \in PlatformSet :
           /\ posts[pl] = MockBaseline(event_name, event_desc, event_date, event_location)[pl]
           /\ posts[pl][1] \in BaselinePhrases(pl)
           /\ posts[pl][Len(posts[pl])] \in BaselinePhrases(pl)

C8_Witness ==
  /\ RunCompleted
  /\ tone = "Enthusiastic"
  /\ event_date /= << >>
  /\ event_location /= << >>
  /\ posts["LinkedIn"][1] = ":tada: INCREDIBLY EXCITED to announce "
  /\ posts["Twitter"][Len(posts["Twitter"])] = " #CantWait #SoExcited"

\* the result of the run the script has just completed
ThisRunResult ==
  IF invoked = <<"generate_mock_posts">>
  THEN generate_mock_posts(event_name, event_desc, event_date, event_location, tone)
  ELSE [pl \in PlatformSet |->
          LET n == CHOOSE k \in 1..Len(Platforms) : Platforms[k] = pl
          IN  ProviderResult(invoked[1], responses[n])]

\* C9 as stated: after every completed run the results view is rendered for
\* the stored result, whatever texts the run produced.
C9_ViewAlwaysRendered ==
  RunCompleted => view.shown /\ view.tabs = posts

\* C9 amended: a completed run stores its own result in place of the prior
\* one; the results view is rendered for it when one of its texts is
\* non-empty, and not rendered when all three are empty.
C9_StoredAndRenderedIfNonEmpty ==
  RunCompleted =>
    /\ posts = ThisRunResult
    /\ view.shown <=> (\E pl \in PlatformSet : posts[pl] /= << >>)
    /\ view.shown => view.tabs = posts

C9_Witness ==
  /\ ProviderRunCompleted
  /\ posts["LinkedIn"] = << >>
  /\ posts["Twitter"] = GeneratedText
  /\ IsErrorString(posts["WhatsApp"])
  /\ view.shown
  /\ view.tabs = posts

\* C10: a provider run issues its requests in the order LinkedIn, Twitter,
\* WhatsApp, each one after the previous reply was recorded and none twice,
\* and returns only after the third reply.
C10_ThreeRequestsInOrder ==
  /\ Len(requests) <= Len(Platforms)
  /\ requests = SubSeq(Platforms, 1, Len(requests))
  /\ pc = "response" => Len(requests) = Len(responses) + 1
  /\ pc /= "response" => Len(requests) = Len(responses)
  /\ pc = "idle" => requests = Platforms /\ toast = "generated"

C10_Witness ==
  /\ ProviderRunCompleted
  /\ requests = Platforms
  /\ Len(responses) = 3
  /\ ~Succeeded(responses[1])
  /\ ~Succeeded(responses[2])
  /\ Succeeded(responses[3])

====
